---- MODULE Spec2Model ----
\* Vector marker symbolization (VectorMarkerSymbolizer.js) and vector geometry
\* painting (VectorRenderer.js) of maptalks, as a state machine over a drawing
\* surface (ctx), a resource pool (resources) and the current symbolizer (this).
\*
\* Units.  Marker sizes and line widths are pixels, as in a symbol definition.
\* Every Point coordinate is kept in HALF PIXELS, so that the halves the code
\* takes (w / 2, lineWidth / 2) are exact integers: the JS point (x, y) is the
\* model point Pt(2x, 2y).
EXTENDS Integers, Sequences, FiniteSets, TLC

VARIABLES this, ctx, resources, registered, calls, last

vars == <<this, ctx, resources, registered, calls, last>>

\* ------------------------------------------------------------------ bounds
\* Most instance points one symbolize call receives.
MaxPoints == 2
\* Most images the resource pool holds.
MaxPool == 1
\* Deepest save stack a surface handed to symbolize may already have.
MaxDepth == 1

\* ------------------------------------------------------------- geo/Point
Pt(x, y) == [x |-> x, y |-> y]

add(p, q) == Pt(p.x + q.x, p.y + q.y)

sub(p, q) == Pt(p.x - q.x, p.y - q.y)

\* Every element of a vertex array moved by point (vectorArray[j]._add(point)).
addAll(vectorArray, point) == [j \in DOMAIN vectorArray |-> add(vectorArray[j], point)]

\* ------------------------------------------------------ values of a symbol
\* A JS null.  Array.prototype.join renders it as the empty string.
Null == "<null>"

\* A colour is either a CSS colour string or a gradient object; a gradient is
\* the object that has colorStops.
css(s) == [css |-> s]

gradientOf(type, stops) == [type |-> type, colorStops |-> stops]

isGradient(g) == "colorStops" \in DOMAIN g

\* getGradientStamp: the gradient's type and its colour stops, joined by '_'.
getGradientStamp(g) == g.type \o "_" \o g.colorStops

\* s[k], or d when the symbol does not define k.
getValueOrDefault(s, k, d) == IF k \in DOMAIN s THEN s[k] ELSE d

isNumber(s, k) == k \in DOMAIN s

\* String.prototype.toLowerCase on the marker type names in use.
toLowerCase(s) == IF s = "Bar" THEN "bar" ELSE s

\* round of core/util on what createMarkerImage hands it: a sum of whole pixels.
round(n) == n

\* Array.prototype.join(sep) over an array of numbers.
RECURSIVE joinNumbers(_, _)
joinNumbers(arr, sep) ==
    IF Len(arr) = 0 THEN ""
    ELSE IF Len(arr) = 1 THEN ToString(arr[1])
    ELSE ToString(arr[1]) \o sep \o joinNumbers(Tail(arr), sep)

\* Array.prototype.join(sep) over an array of strings; null joins as ''.
RECURSIVE join(_, _)
join(arr, sep) ==
    LET str(v) == IF v = Null THEN "" ELSE v
    IN  IF Len(arr) = 0 THEN ""
        ELSE IF Len(arr) = 1 THEN str(arr[1])
        ELSE str(arr[1]) \o sep \o join(Tail(arr), sep)

\* ------------------------------------------------------- style resolution
hasFunctionDefinition(symbol) == symbol.fnKeys # {}

\* The style object keeps the keys and the evaluated values it is given.
defineStyle(style) == style

translate(symbol) ==
    LET s == symbol.props
        result ==
            [markerType            |-> getValueOrDefault(s, "markerType", "ellipse"),
             markerFill            |-> getValueOrDefault(s, "markerFill", css("#00f")),
             markerFillOpacity     |-> getValueOrDefault(s, "markerFillOpacity", 1),
             markerFillPatternFile |-> getValueOrDefault(s, "markerFillPatternFile", Null),
             markerLineColor       |-> getValueOrDefault(s, "markerLineColor", css("#000")),
             markerLineWidth       |-> getValueOrDefault(s, "markerLineWidth", 1),
             markerLineOpacity     |-> getValueOrDefault(s, "markerLineOpacity", 1),
             markerLineDasharray   |-> getValueOrDefault(s, "markerLineDasharray", <<>>),
             markerLinePatternFile |-> getValueOrDefault(s, "markerLinePatternFile", Null),
             markerWidth           |-> getValueOrDefault(s, "markerWidth", 10),
             markerHeight          |-> getValueOrDefault(s, "markerHeight", 10),
             markerDx              |-> getValueOrDefault(s, "markerDx", 0),
             markerDy              |-> getValueOrDefault(s, "markerDy", 0)]
    IN  IF isNumber(s, "markerOpacity")
        THEN [result EXCEPT !.markerFillOpacity = @ * s.markerOpacity,
                            !.markerLineOpacity = @ * s.markerOpacity]
        ELSE result

translateLineAndFill(s) ==
    LET result ==
            [lineColor          |-> s.markerLineColor,
             linePatternFile    |-> s.markerLinePatternFile,
             lineWidth          |-> s.markerLineWidth,
             lineOpacity        |-> s.markerLineOpacity,
             lineDasharray      |-> Null,
             lineCap            |-> "butt",
             lineJoin           |-> "round",
             polygonFill        |-> s.markerFill,
             polygonPatternFile |-> s.markerFillPatternFile,
             polygonOpacity     |-> s.markerFillOpacity]
    IN  IF result.lineWidth = 0 THEN [result EXCEPT !.lineOpacity = 0] ELSE result

\* new VectorMarkerSymbolizer(symbol, geometry, painter); of the geometry the
\* symbolizer reads options.shadowBlur.
constructor(symbol, shadowBlur) ==
    LET style == defineStyle(translate(symbol))
        strokeAndFill == defineStyle(translateLineAndFill(style))
    IN  [symbol        |-> symbol,
         dynamic       |-> hasFunctionDefinition(symbol),
         style         |-> style,
         strokeAndFill |-> strokeAndFill,
         padding       |-> IF strokeAndFill.lineWidth % 2 = 0 THEN <<2, 2>> ELSE <<3, 3>>,
         stamp         |-> "",
         shadowBlur    |-> shadowBlur]

\* this._stamp as _stampSymbol leaves it (computed once, then kept).
stampOf(t) ==
    IF t.stamp # "" THEN t.stamp
    ELSE LET st == t.style
             color(c) == IF isGradient(c) THEN getGradientStamp(c) ELSE c.css
         IN  join(<<st.markerType,
                    color(st.markerFill),
                    ToString(st.markerFillOpacity),
                    st.markerFillPatternFile,
                    color(st.markerLineColor),
                    ToString(st.markerLineWidth),
                    ToString(st.markerLineOpacity),
                    joinNumbers(st.markerLineDasharray, ","),
                    st.markerLinePatternFile,
                    ToString(st.markerWidth),
                    ToString(st.markerHeight)>>, "_")

stampSymbol(t) == [t EXCEPT !.stamp = stampOf(t)]

\* Mutant of getAnchor: every kind is anchored at the centre of the image.
getAnchor_centered(t, w, h) == Pt(w, h)

\* _getAnchor(w, h), in half pixels.
getAnchor(t, w, h) ==
    LET lineWidth == t.strokeAndFill.lineWidth
        shadow == t.shadowBlur
        markerType == toLowerCase(t.style.markerType)
    IN  IF markerType \in {"bar", "pie", "pin"}
        THEN Pt(w, 2 * h - 2 * t.padding[2] - lineWidth - 2 * shadow)
        ELSE Pt(w, h)

getDxDy(t) == Pt(2 * t.style.markerDx, 2 * t.style.markerDy)

\* ------------------------------------------------------- drawing surface
\* The surface transform is a translation t and a rotation of q quarter turns;
\* a point p of the current frame is the surface point t + Rot(q, p).
Rot(q, p) ==
    CASE q = 0 -> p
      [] q = 1 -> Pt(-p.y, p.x)
      [] q = 2 -> Pt(-p.x, -p.y)
      [] q = 3 -> Pt(p.y, -p.x)

Device(xf, p) == add(xf.t, Rot(xf.q, p))

Identity == [t |-> Pt(0, 0), q |-> 0]

\* A 2d context as created: empty save stack, identity transform.
newContext ==
    [stack |-> <<>>, xf |-> Identity, lineCap |-> "butt",
     lineDash |-> <<>>, setLineDash |-> TRUE,
     strokeStyle |-> "#000", fillStyle |-> "#000"]

\* ctx.save(): push the drawing state.
save(c) ==
    [c EXCEPT !.stack = Append(@, [xf |-> c.xf, lineCap |-> c.lineCap, lineDash |-> c.lineDash,
                                   strokeStyle |-> c.strokeStyle, fillStyle |-> c.fillStyle])]

\* ctx.restore(): pop the drawing state; nothing to pop, nothing done.
restore(c) ==
    IF Len(c.stack) = 0 THEN c
    ELSE LET top == c.stack[Len(c.stack)]
         IN  [c EXCEPT !.stack = SubSeq(@, 1, Len(@) - 1),
                       !.xf = top.xf, !.lineCap = top.lineCap, !.lineDash = top.lineDash,
                       !.strokeStyle = top.strokeStyle, !.fillStyle = top.fillStyle]

ctxTranslate(c, p) == [c EXCEPT !.xf.t = Device(c.xf, p)]

ctxRotate(c, r) == [c EXCEPT !.xf.q = (@ + r) % 4]

\* One call issued to a collaborator: the operation, what it goes to (the
\* surface "main", an "offscreen" surface, or the resource "pool"), its point
\* argument, its vertex argument, its
\* numeric arguments, and the transform and line cap in force when it is made.
Call(op, target, c, at, pts, arg) ==
    [op |-> op, target |-> target, at |-> at, pts |-> pts, arg |-> arg,
     xf |-> c.xf, cap |-> c.lineCap]

Origin == Pt(0, 0)

\* ---------------------------------------------------------- shape vertices
\* 1000 * atan(n / d), for the ratios the marker sizes in use produce.
atanMilli(n, d) ==
    CASE n = d     -> 785
      [] 2 * n = d -> 464
      [] 4 * n = d -> 245
      [] n = 2 * d -> 1107

\* _getVectorPoints(markerType, width, height): hh = height / 2 and
\* hw = width / 2 pixels are height and width half pixels.
getVectorPoints(markerType, width, height) ==
    LET hh == height
        hw == width
        left == 0
        top == 0
    IN  CASE markerType = "triangle" ->
               <<Pt(left, top - hh), Pt(left - hw, top + hh), Pt(left + hw, top + hh)>>
          [] markerType = "cross" ->
               <<Pt(left - hw, top), Pt(left + hw, top), Pt(left, top - hh), Pt(left, top + hh)>>
          [] markerType = "diamond" ->
               <<Pt(left - hw, top), Pt(left, top - hh), Pt(left + hw, top), Pt(left, top + hh)>>
          [] markerType = "square" ->
               <<Pt(left - hw, top + hh), Pt(left + hw, top + hh),
                 Pt(left + hw, top - hh), Pt(left - hw, top - hh)>>
          [] markerType = "x" ->
               <<Pt(left - hw, top + hh), Pt(left + hw, top - hh),
                 Pt(left + hw, top + hh), Pt(left - hw, top - hh)>>
          [] markerType = "bar" ->
               <<Pt(left - hw, top - 2 * height), Pt(left + hw, top - 2 * height),
                 Pt(left + hw, top), Pt(left - hw, top)>>
          [] markerType = "pin" ->
               \* extWidth = height * atan(hw / hh), to the nearest half pixel
               LET extWidth == (2 * height * atanMilli(hw, hh) + 500) \div 1000
               IN  <<Pt(left, top), Pt(left - extWidth, top - 2 * height),
                     Pt(left + extWidth, top - 2 * height), Pt(left, top)>>
          [] OTHER -> <<>>

\* getMarkerExtent(), in half pixels.
getMarkerExtent(t) ==
    LET dxdy == getDxDy(t)
        style == t.style
        markerType == toLowerCase(style.markerType)
        width == style.markerWidth
        height == style.markerHeight
        result ==
            IF markerType \in {"bar", "pie", "pin"}
            THEN [xmin |-> dxdy.x - width, ymin |-> dxdy.y - 2 * height,
                  xmax |-> dxdy.x + width, ymax |-> dxdy.y]
            ELSE [xmin |-> dxdy.x - width, ymin |-> dxdy.y - height,
                  xmax |-> dxdy.x + width, ymax |-> dxdy.y + height]
        d == style.markerLineWidth
    IN  IF d # 0
        THEN [xmin |-> result.xmin - d, ymin |-> result.ymin - d,
              xmax |-> result.xmax + d, ymax |-> result.ymax + d]
        ELSE result

\* PointExtent.expand(distance), distance in pixels.
expand(e, distance) ==
    [xmin |-> e.xmin - 2 * distance, ymin |-> e.ymin - 2 * distance,
     xmax |-> e.xmax + 2 * distance, ymax |-> e.ymax + 2 * distance]

\* _getGraidentExtent(points) for the single point _drawVectorMarker hands it.
getGraidentExtent(t, point) ==
    LET m == getMarkerExtent(t)
    IN  [xmin |-> point.x + m.xmin, ymin |-> point.y + m.ymin,
         xmax |-> point.x + m.xmax, ymax |-> point.y + m.ymax]

\* --------------------------------------------------------- marker drawing
\* The result of a drawing routine: the surface as it leaves it, the calls it
\* issued, whether it threw, and the symbolizer as it leaves it.
Outcome(c, issued, err, t) == [ctx |-> c, calls |-> issued, err |-> err, this |-> t]

\* Mutant of isStrokeKind: only the cross is drawn as two strokes.
isStrokeKind_crossOnly(markerType) == markerType = "cross"

\* The kinds _drawVectorMarker draws as two strokes.
isStrokeKind(markerType) == markerType = "cross" \/ markerType = "x"

\* The kinds _drawVectorMarker draws as one polygon.
isPolygonKind(markerType) == markerType \in {"diamond", "bar", "square", "triangle"}

\* _drawVectorMarker(ctx, point, resources)
drawVectorMarker(t, c, target, point0) ==
    LET style == t.style
        sf0 == t.strokeAndFill
        markerType == toLowerCase(style.markerType)
        vectorArray == getVectorPoints(markerType, style.markerWidth, style.markerHeight)
        gradient == isGradient(sf0.lineColor) \/ isGradient(sf0.polygonFill)
        gradientExtent == getGraidentExtent(t, point0)
        sf1 == IF isGradient(sf0.lineColor)
               THEN ("lineGradientExtent" :> expand(gradientExtent, sf0.lineWidth)) @@ sf0
               ELSE sf0
        sf2 == IF isGradient(sf0.polygonFill)
               THEN ("polygonGradientExtent" :> gradientExtent) @@ sf1
               ELSE sf1
        t1 == [t EXCEPT !.strokeAndFill = sf2]
        prep == IF gradient
                THEN <<Call("prepareCanvas", target, c, Origin, <<>>, <<>>)>>
                ELSE <<>>
        width == style.markerWidth
        height == style.markerHeight
        shifted == add(point0, Pt(0, -style.markerLineWidth))
        round_ == [c EXCEPT !.lineCap = "round"]
    IN  IF markerType = "ellipse" THEN
            Outcome(c, prep \o <<Call("ellipse", target, c, point0, <<>>, <<width, height>>)>>,
                    FALSE, t1)
        ELSE IF isStrokeKind(markerType) THEN
            LET v == addAll(vectorArray, point0)
            IN  Outcome(c, prep \o <<Call("path", target, c, Origin, SubSeq(v, 1, 2), <<>>),
                                     Call("path", target, c, Origin, SubSeq(v, 3, 4), <<>>)>>,
                        FALSE, t1)
        ELSE IF isPolygonKind(markerType) THEN
            LET point == IF markerType = "bar" THEN shifted ELSE point0
            IN  Outcome(c, prep \o <<Call("polygon", target, c, Origin,
                                          addAll(vectorArray, point), <<>>)>>,
                        FALSE, t1)
        ELSE IF markerType = "pin" THEN
            Outcome(c, prep \o <<Call("bezierCurveAndFill", target, round_, Origin,
                                      addAll(vectorArray, shifted), <<>>)>>,
                    FALSE, t1)
        ELSE IF markerType = "pie" THEN
            \* angle = atan(width / 2 / height) in degrees, to the nearest degree
            LET angle == (atanMilli(width, 2 * height) * 180000 + 1570796) \div 3141593
            IN  Outcome(c, prep \o <<Call("sector", target, round_, shifted, <<>>,
                                          <<2 * height, 90 - angle, 90 + angle>>)>>,
                        FALSE, t1)
        ELSE
            \* throw new Error('unsupported markerType: ' + markerType)
            Outcome(c, prep, TRUE, t1)

\* PointSymbolizer._rotate(ctx, origin, rotation): with a rotation, save the
\* surface state, move the frame to the pivot, rotate it, and answer the point
\* to draw at in the new frame; without one, answer nothing.
rotate(t, c, target, origin, rotation) ==
    IF rotation > 0
    THEN LET dxdy == getDxDy(t)
             p == sub(origin, dxdy)
             c1 == save(c)
             c2 == ctxTranslate(c1, p)
             c3 == ctxRotate(c2, rotation)
         IN  [rotated |-> TRUE, ctx |-> c3, origin |-> dxdy,
              calls |-> <<Call("save", target, c, Origin, <<>>, <<>>),
                          Call("translate", target, c1, p, <<>>, <<>>),
                          Call("rotate", target, c2, Origin, <<>>, <<rotation>>)>>]
    ELSE [rotated |-> FALSE, ctx |-> c, origin |-> origin, calls |-> <<>>]

\* The frame one instance is drawn in: the surface after the rotate step on
\* point0, and the point to draw at in it (the origin the rotate step answers,
\* or point0 itself).
frame(t, c, point0, rotation) ==
    LET r == rotate(t, c, "main", point0, rotation)
    IN  [rotated |-> r.rotated, ctx |-> r.ctx, calls |-> r.calls,
         point |-> IF r.rotated THEN r.origin ELSE point0]

\* The loop of _drawMarkers from index i down to the first instance.
RECURSIVE drawMarkersFrom(_, _, _, _, _)
drawMarkersFrom(t, c, cookedPoints, rotations, i) ==
    IF i = 0 THEN Outcome(c, <<>>, FALSE, t)
    ELSE LET step(r, d) ==
                 IF d.err THEN Outcome(d.ctx, r.calls \o d.calls, TRUE, d.this)
                 ELSE LET c1 == IF r.rotated THEN restore(d.ctx) ELSE d.ctx
                          back == IF r.rotated
                                  THEN <<Call("restore", "main", d.ctx, Origin, <<>>, <<>>)>>
                                  ELSE <<>>
                      IN  CHOOSE o \in
                            {Outcome(rest.ctx, r.calls \o d.calls \o back \o rest.calls,
                                     rest.err, rest.this)
                               : rest \in {drawMarkersFrom(d.this, c1, cookedPoints,
                                                           rotations, i - 1)}} : TRUE
             draw(r) == CHOOSE o \in
                          {step(r, d) : d \in {drawVectorMarker(t, r.ctx, "main", r.point)}} : TRUE
         IN  CHOOSE o \in {draw(r) : r \in {frame(t, c, cookedPoints[i], rotations[i])}} : TRUE

\* _drawMarkers(ctx, cookedPoints, resources)
drawMarkers(t, c, cookedPoints, rotations) ==
    LET strokeAndFill == t.strokeAndFill
        gradient == isGradient(strokeAndFill.lineColor) \/ isGradient(strokeAndFill.polygonFill)
        prep == IF ~gradient
                THEN <<Call("prepareCanvas", "main", c, Origin, <<>>, <<>>)>>
                ELSE <<>>
    IN  CHOOSE o \in
          {Outcome(loop.ctx, prep \o loop.calls, loop.err, loop.this)
             : loop \in {drawMarkersFrom(t, c, cookedPoints, rotations, Len(cookedPoints))}} : TRUE

\* ----------------------------------------------------------- resource pool
\* The pool maps the first element of a resource key (for a marker image, its
\* stamp) to the image registered under it and the size the key names.
NoImage == [id |-> 0, width |-> 0, height |-> 0, content |-> <<>>]

getImage(res, url) == IF url \in DOMAIN res THEN res[url].image ELSE NoImage

addResource(res, url, img) ==
    (url[1] :> [image |-> img, width |-> url[2], height |-> url[3]]) @@ res

\* ------------------------------------------------------------ cached blit
\* _createMarkerImage(ctx, resources); id names the canvas instance it creates.
createMarkerImage(t, c, id) ==
    LET lineWidth == t.strokeAndFill.lineWidth
        shadow == t.shadowBlur
        w == round(t.style.markerWidth + lineWidth + 2 * shadow + t.padding[1] * 2)
        h == round(t.style.markerHeight + lineWidth + 2 * shadow + t.padding[2] * 2)
        create == <<Call("createCanvas", "offscreen", newContext, Origin, <<>>, <<w, h>>)>>
        point == getAnchor(t, w, h)
        context == newContext
        gradient == isGradient(t.strokeAndFill.lineColor) \/ isGradient(t.strokeAndFill.polygonFill)
        prep == IF ~gradient
                THEN <<Call("prepareCanvas", "offscreen", context, Origin, <<>>, <<>>)>>
                ELSE <<>>
    IN  CHOOSE made \in
          {[image |-> [id |-> id, width |-> w, height |-> h, content |-> prep \o d.calls],
            calls |-> create \o prep \o d.calls,
            err   |-> d.err,
            this  |-> d.this]
             : d \in {drawVectorMarker(t, context, "offscreen", point)}} : TRUE

\* The loop of _drawMarkersWithCache from index i down to the first instance.
RECURSIVE blitFrom(_, _, _, _, _, _, _)
blitFrom(t, c, image, anchor, cookedPoints, rotations, i) ==
    IF i = 0 THEN Outcome(c, <<>>, FALSE, t)
    ELSE LET step(r) ==
                 LET blit == <<Call("image", "main", r.ctx, r.point, <<>>, <<image.id>>)>>
                     c1 == IF r.rotated THEN restore(r.ctx) ELSE r.ctx
                     back == IF r.rotated
                             THEN <<Call("restore", "main", r.ctx, Origin, <<>>, <<>>)>>
                             ELSE <<>>
                 IN  CHOOSE o \in
                       {Outcome(rest.ctx, r.calls \o blit \o back \o rest.calls, FALSE, t)
                          : rest \in {blitFrom(t, c1, image, anchor, cookedPoints,
                                               rotations, i - 1)}} : TRUE
         IN  CHOOSE o \in
               {step(r) : r \in {frame(t, c, sub(cookedPoints[i], anchor), rotations[i])}} : TRUE

\* What symbolize answers to the model: the path it took, the surface, the
\* calls, the pool and the symbolizer as it leaves them, and of a cached blit
\* the image it drew, its anchor, whether the lookup hit, and the number of
\* images it registered.
Result(path, o, res, image, anchor, hit, adds) ==
    [path |-> path, ctx |-> o.ctx, calls |-> o.calls, err |-> o.err, this |-> o.this,
     resources |-> res, image |-> image, anchor |-> anchor, hit |-> hit, adds |-> adds]

\* _drawMarkersWithCache once the lookup has answered found; t holds the stamp.
drawWithImage(t, c, cookedPoints, rotations, res, found) ==
    LET stamp == t.stamp
        lookup == <<Call("getImage", "pool", c, Origin, <<>>, <<>>)>>
        miss == found = NoImage
        with(made) ==
            IF miss /\ made.err
            THEN Result("cache", Outcome(c, lookup \o made.calls, TRUE, made.this), res,
                        NoImage, Origin, FALSE, 0)
            ELSE LET image == IF miss THEN made.image ELSE found
                     res1 == IF miss
                             THEN addResource(res, <<stamp, image.width, image.height>>, image)
                             ELSE res
                     register == IF miss
                                 THEN <<Call("addResource", "pool", c, Origin, <<>>, <<image.id>>)>>
                                 ELSE <<>>
                     t1 == IF miss THEN made.this ELSE t
                     anchor == getAnchor(t1, image.width, image.height)
                 IN  CHOOSE o \in
                       {Result("cache",
                               Outcome(loop.ctx,
                                       lookup \o (IF miss THEN made.calls ELSE <<>>)
                                              \o register \o loop.calls,
                                       FALSE, t1),
                               res1, image, anchor, ~miss, IF miss THEN 1 ELSE 0)
                          : loop \in {blitFrom(t1, c, image, anchor, cookedPoints, rotations,
                                               Len(cookedPoints))}} : TRUE
    IN  CHOOSE o \in
          {with(made) : made \in {createMarkerImage(t, c, Cardinality(DOMAIN res) + 1)}} : TRUE

\* Mutant of drawMarkersWithCache: the image is created without a lookup.
drawMarkersWithCache_alwaysCreate(t0, c, cookedPoints, rotations, res) ==
    CHOOSE o \in {drawWithImage(t, c, cookedPoints, rotations, res, NoImage)
                     : t \in {stampSymbol(t0)}} : TRUE

\* _drawMarkersWithCache(ctx, cookedPoints, resources)
drawMarkersWithCache(t0, c, cookedPoints, rotations, res) ==
    CHOOSE o \in {drawWithImage(t, c, cookedPoints, rotations, res, getImage(res, t.stamp))
                     : t \in {stampSymbol(t0)}} : TRUE

\* ---------------------------------------------------------------- symbolize
\* o[k] === v, which is false when o has no property k.
propEquals(o, k, v) == k \in DOMAIN o /\ o[k] = v

isArrayHasData(arr) == Len(arr) > 0

\* Mutant of liveDraw: a cacheVectorOnCanvas that is not set counts as false.
liveDraw_falsy(t, env) ==
    \/ env.spriting
    \/ env.isMask
    \/ t.dynamic
    \/ env.cacheVectorOnCanvas # "true"

\* The test of symbolize for drawing live rather than from the cached image.
liveDraw(t, env) ==
    \/ env.spriting
    \/ env.isMask
    \/ t.dynamic
    \/ env.cacheVectorOnCanvas = "false"

\* symbolize(ctx, resources).  cookedPoints and rotations are what
\* _getRenderContainerPoints and _getRotationAt answer; env is what the
\* painter and the layer answer: isSpriting(), getMask() === geometry, and
\* options.cacheVectorOnCanvas.
symbolize(t, c, res, cookedPoints, rotations, env) ==
    LET style == t.style
    IN  IF \/ propEquals(style, "markerWidth", 0)
           \/ propEquals(style, "markerHeight", 0)
           \/ (propEquals(style, "polygonOpacity", 0) /\ propEquals(style, "lineOpacity", 0))
        THEN Result("early", Outcome(c, <<>>, FALSE, t), res, NoImage, Origin, FALSE, 0)
        ELSE IF ~isArrayHasData(cookedPoints)
        THEN Result("empty", Outcome(c, <<>>, FALSE, t), res, NoImage, Origin, FALSE, 0)
        ELSE LET prepare == <<Call("prepareContext", "main", c, Origin, <<>>, <<>>)>>
             IN  IF liveDraw(t, env)
                 THEN CHOOSE live \in
                        {Result("live", Outcome(o.ctx, prepare \o o.calls, o.err, o.this),
                                res, NoImage, Origin, FALSE, 0)
                           : o \in {drawMarkers(t, c, cookedPoints, rotations)}} : TRUE
                 ELSE CHOOSE cached \in
                        {[r EXCEPT !.calls = prepare \o @]
                           : r \in {drawMarkersWithCache(t, c, cookedPoints, rotations, res)}} : TRUE

\* ------------------------------------------------------------- LineString
\* Point._unit() of the difference of two vertices of an axis-parallel path.
unit(v) ==
    CASE v.x > 0 /\ v.y = 0 -> Pt(1, 0)
      [] v.x < 0 /\ v.y = 0 -> Pt(-1, 0)
      [] v.x = 0 /\ v.y > 0 -> Pt(0, 1)
      [] v.x = 0 /\ v.y < 0 -> Pt(0, -1)

\* Point._perp()
perp(v) == Pt(-v.y, v.x)

\* Point.multi(n)
multi(v, n) == Pt(v.x * n, v.y * n)

\* LineString.arrowStyles
arrowStyles == [classic |-> <<3, 4>>]

\* No arrow style (null, or the undefined of a name arrowStyles does not hold).
NoArrowStyle == <<>>

\* _getArrowPoints(prePoint, point, lineWidth, arrowStyle, tolerance), in half
\* pixels; tolerance 0 stands for a tolerance that is not given.
getArrowPoints(prePoint, point, lineWidth, arrowStyle, tolerance) ==
    LET width == lineWidth * arrowStyle[1]
        height == 2 * (lineWidth * arrowStyle[2] + tolerance)
        hw == width + 2 * tolerance
        normal == unit(sub(point, prePoint))
        p1 == sub(point, multi(normal, height))
        p0 == add(p1, multi(perp(normal), hw))
        p2 == add(p1, multi(multi(perp(normal), -1), hw))
    IN  <<p0, point, p2, p0>>

\* _getArrowPlacement()
getArrowPlacement(line) == line.options.arrowPlacement

\* _getArrowStyle(): an array is the style itself, a name is looked up.
getArrowStyle(line) ==
    IF "arrowStyle" \notin DOMAIN line.options THEN NoArrowStyle
    ELSE LET arrowStyle == line.options.arrowStyle
         IN  IF "array" \in DOMAIN arrowStyle THEN arrowStyle.array
             ELSE IF arrowStyle.name \in DOMAIN arrowStyles THEN arrowStyles[arrowStyle.name]
             ELSE NoArrowStyle

\* Mutant of placesLast: vertex-firstlast places no arrow at the last vertex.
placesLast_lastOnly(placement) == placement = "vertex-last"

\* The placements of _getArrows that put an arrow at the first vertex.
placesFirst(placement) == placement = "vertex-first" \/ placement = "vertex-firstlast"

\* The placements of _getArrows that put an arrow at the last vertex.
placesLast(placement) == placement = "vertex-last" \/ placement = "vertex-firstlast"

\* The arrows _getArrows pushes for one segment.
segmentArrows(segment, placement, lineWidth, arrowStyle, tolerance) ==
    LET n == Len(segment)
        first == IF placesFirst(placement)
                 THEN <<getArrowPoints(segment[2], segment[1], lineWidth, arrowStyle, tolerance)>>
                 ELSE <<>>
        rest == IF placesLast(placement)
                THEN <<getArrowPoints(segment[n - 1], segment[n], lineWidth, arrowStyle, tolerance)>>
                ELSE IF placement = "point"
                THEN [ii \in 1..(n - 1) |->
                        getArrowPoints(segment[ii], segment[ii + 1], lineWidth, arrowStyle, tolerance)]
                ELSE <<>>
    IN  first \o rest

\* The loop of _getArrows over the segments, from segment i down to the first.
RECURSIVE arrowsFrom(_, _, _, _, _, _)
arrowsFrom(segments, i, placement, lineWidth, arrowStyle, tolerance) ==
    IF i = 0 THEN <<>>
    ELSE segmentArrows(segments[i], placement, lineWidth, arrowStyle, tolerance)
         \o arrowsFrom(segments, i - 1, placement, lineWidth, arrowStyle, tolerance)

\* A path is its points, or, split at the anti-meridian, its segments; splitted
\* says which (Array.isArray(points[0])). The length of the points array:
pathLength(path) == IF path.splitted THEN Len(path.segments) ELSE Len(path.points)

\* The points of a path in one list, as the stroke call is logged.
pathPoints(path) ==
    IF path.splitted THEN path.segments[1] \o path.segments[2] ELSE path.points

\* _getArrows(points, lineWidth, tolerance); the empty list stands for null.
getArrows(line, path, lineWidth, tolerance) ==
    LET arrowStyle == getArrowStyle(line)
    IN  IF arrowStyle = NoArrowStyle \/ pathLength(path) < 2 THEN <<>>
        ELSE LET isSplitted == pathLength(path) > 0 /\ path.splitted
                 segments == IF isSplitted THEN path.segments ELSE <<path.points>>
                 placement == getArrowPlacement(line)
             IN  arrowsFrom(segments, Len(segments), placement, lineWidth, arrowStyle, tolerance)

\* _paintArrow(ctx, points, lineOpacity)
paintArrow(line, c, path, lineOpacity) ==
    LET symbol == line.symbol
        lineWidth == IF "lineWidth" \notin DOMAIN symbol \/ symbol.lineWidth < 3
                     THEN 3 ELSE symbol.lineWidth
        arrows == getArrows(line, path, lineWidth, 0)
    IN  IF arrows = <<>> THEN [ctx |-> c, calls |-> <<>>, arrows |-> arrows]
        ELSE LET c1 == IF c.setLineDash THEN [c EXCEPT !.lineDash = <<>>] ELSE c
                 clear == IF c.setLineDash
                          THEN <<Call("setLineDash", "main", c, Origin, <<>>, <<>>)>>
                          ELSE <<>>
                 c2 == [c1 EXCEPT !.fillStyle = c1.strokeStyle]
                 fills == [k \in 1..Len(arrows) |->
                             Call("polygon", "main", c2, Origin,
                                  arrows[Len(arrows) - k + 1], <<>>)]
             IN  [ctx |-> c2, calls |-> clear \o fills, arrows |-> arrows]

\* LineString._paintOn(ctx, points, lineOpacity, fillOpacity, dasharray)
paintOn(line, c, path, lineOpacity, fillOpacity, dasharray) ==
    LET stroke == <<Call("path", "main", c, Origin, pathPoints(path), dasharray)>>
        a == paintArrow(line, c, path, lineOpacity)
    IN  [ctx |-> a.ctx, calls |-> stroke \o a.calls, arrows |-> a.arrows]

\* ---------------------------------------------------------------- Polygon
\* An element of a JS array of rings: a ring (an array of points), a single
\* point, or undefined.
Ring(points) == [type |-> "ring", points |-> points]

SinglePoint(p) == [type |-> "point", points |-> <<p>>]

Undefined == [type |-> "undefined", points |-> <<>>]

\* Array.isArray(hole) for what _getPath2DPoints answers: an array of points
\* or an array of two arrays of points, an array either way.
isArray(path) == path.splitted \/ ~path.splitted

\* path[k] of what _getPath2DPoints answers, k counted from 0: a part of a split
\* path, a point of an unsplit one, undefined beyond its length.
elementAt(path, k) ==
    IF path.splitted
    THEN IF k < Len(path.segments) THEN Ring(path.segments[k + 1]) ELSE Undefined
    ELSE IF k < Len(path.points) THEN SinglePoint(path.points[k + 1]) ELSE Undefined

\* The loop of Polygon._getPaintParams over the holes, from hole i on: acc holds
\* points[0], points[1] and holePoints as the loop has them.
RECURSIVE pushHoles(_, _, _, _)
pushHoles(acc, holes, i, isSplitted) ==
    IF i > Len(holes) THEN acc
    ELSE LET hole == holes[i]
             next == IF isSplitted
                     THEN IF isArray(hole)
                          THEN [acc EXCEPT !.first = Append(@, elementAt(hole, 0)),
                                           !.second = Append(@, elementAt(hole, 1))]
                          ELSE [acc EXCEPT !.first = Append(@, Ring(hole.points))]
                     ELSE [acc EXCEPT !.holePoints = Append(@, Ring(hole.points))]
         IN  CHOOSE r \in {pushHoles(a, holes, i + 1, isSplitted) : a \in {next}} : TRUE

\* Polygon._getPaintParams(): outer is what _getPath2DPoints answers for the
\* outer ring and holes what it answers for each hole.  The answer is the
\* argument handed to Canvas.polygon: the two ring lists of a split polygon, or
\* one list of rings.
getPaintParams(outer, holes) ==
    LET isSplitted == pathLength(outer) > 0 /\ outer.splitted
        acc0 == IF isSplitted
                THEN [first |-> <<Ring(outer.segments[1])>>,
                      second |-> <<Ring(outer.segments[2])>>, holePoints |-> <<>>]
                ELSE [first |-> <<>>, second |-> <<>>, holePoints |-> <<>>]
    IN  CHOOSE r \in
          {IF isSplitted
           THEN [splitted |-> TRUE, lists |-> <<acc.first, acc.second>>]
           ELSE [splitted |-> FALSE, lists |-> <<<<Ring(outer.points)>> \o acc.holePoints>>]
             : acc \in {pushHoles(acc0, holes, 1, isSplitted)}} : TRUE

\* ------------------------------------------------------------------ inputs
\* The marker kinds of the glossary.
MarkerKinds == {"ellipse", "cross", "x", "diamond", "square", "bar", "triangle", "pin", "pie"}

\* A symbol definition: the properties it defines, with the value each
\* evaluates to, and the keys among them given as function-valued expressions.
Sym(props) == [props |-> props, fnKeys |-> {}]

\* One symbol per marker kind, a capitalised kind, kinds the symbolizer does
\* not know, and the empty symbol.
KindSymbols ==
    {Sym([markerType |-> k]) : k \in MarkerKinds \cup {"Bar", "star"}} \cup {Sym(<<>>)}

\* Sizes, line widths and opacities.
SizeSymbols ==
    {Sym([markerType |-> "bar", markerWidth |-> 10, markerHeight |-> 20, markerLineWidth |-> 2]),
     Sym([markerWidth |-> 0]),
     Sym([markerHeight |-> 0]),
     Sym([markerFillOpacity |-> 0, markerLineOpacity |-> 0]),
     Sym([markerOpacity |-> 0]),
     Sym([markerFillOpacity |-> 0]),
     Sym([markerType |-> "square", markerLineWidth |-> 0]),
     Sym([markerType |-> "star", markerWidth |-> 0])}

\* Colours, pattern files and dash arrays, some holding the '_' of the stamp.
StampSymbols ==
    {Sym([markerType |-> "pin", markerFill |-> css("a"), markerFillPatternFile |-> "1_p"]),
     Sym([markerType |-> "pin", markerFill |-> css("a_1"), markerFillPatternFile |-> "p"]),
     Sym([markerType |-> "pin_a", markerFill |-> css("1"), markerFillPatternFile |-> "p"]),
     Sym([markerType |-> "square", markerFill |-> gradientOf("linear", "0,red,1,blue")]),
     Sym([markerType |-> "diamond", markerLineColor |-> gradientOf("radial", "0,red,1,blue"),
          markerLineDasharray |-> <<5, 2>>]),
     [props |-> [markerType |-> "triangle", markerWidth |-> 10],
      fnKeys |-> {"markerWidth"}]}

Symbols == KindSymbols \cup SizeSymbols \cup StampSymbols

\* geometry.options.shadowBlur
ShadowBlurs == {0, 2}

\* _getRotationAt(i): no rotation (null), or a rotation in quarter turns.
NoRotation == 0

Rotations == {NoRotation, 1}

\* The i-th instance point of a geometry, in half pixels.
PointAt(i) == Pt(40 * i, 20 + 8 * i)

Envs ==
    [spriting : BOOLEAN, isMask : BOOLEAN, cacheVectorOnCanvas : {"true", "false", "undefined"}]

NoEnv == [spriting |-> FALSE, isMask |-> FALSE, cacheVectorOnCanvas |-> "undefined"]

\* ------------------------------------------------------------------ actions
\* The record of the last operation: its inputs, the state it started from
\* and what it answered.
Idle ==
    [op |-> "none", path |-> "none", err |-> FALSE, depth0 |-> 0, before |-> newContext,
     cookedPoints |-> <<>>, rotations |-> <<>>, env |-> NoEnv, poolBefore |-> <<>>,
     image |-> NoImage, anchor |-> Origin, hit |-> FALSE, adds |-> 0]

Init ==
    /\ this = constructor(Sym(<<>>), 0)
    /\ ctx = newContext
    /\ resources = <<>>
    /\ registered = <<>>
    /\ calls = <<>>
    /\ last = Idle

\* A geometry gets a symbol: new VectorMarkerSymbolizer(symbol, geometry, painter).
ConstructIn(symbolizers) ==
    \E t \in symbolizers :
        /\ this' = t
        /\ calls' = <<>>
        /\ last' = Idle
        /\ UNCHANGED <<ctx, resources, registered>>

\* A new rendering context: a new surface, a new resource pool, and a
\* geometry of it that gets a symbol.
NewContextIn(symbolizers) ==
    \E t \in symbolizers :
        /\ this' = t
        /\ ctx' = newContext
        /\ resources' = <<>>
        /\ registered' = <<>>
        /\ calls' = <<>>
        /\ last' = Idle

\* The painter calls this.symbolize(ctx, resources).
SymbolizeIn(envs, rots) ==
    \E n \in 0..MaxPoints, env \in envs :
      \E rotations \in [1..n -> rots] :
        \E cookedPoints \in {[i \in 1..n |-> PointAt(i)]} :
          \E r \in {symbolize(this, ctx, resources, cookedPoints, rotations, env)} :
            /\ Len(ctx.stack) < MaxDepth
            /\ Cardinality(DOMAIN r.resources) <= MaxPool
            /\ this' = r.this
            /\ ctx' = r.ctx
            /\ resources' = r.resources
            /\ registered' = IF r.adds = 0 THEN registered
                             ELSE LET s == r.this.stamp
                                  IN  (s :> (IF s \in DOMAIN registered
                                             THEN registered[s] + r.adds
                                             ELSE r.adds)) @@ registered
            /\ calls' = r.calls
            /\ last' = [op |-> "symbolize", path |-> r.path, err |-> r.err,
                        depth0 |-> Len(ctx.stack), before |-> ctx,
                        cookedPoints |-> cookedPoints, rotations |-> rotations,
                        env |-> env, poolBefore |-> resources,
                        image |-> r.image, anchor |-> r.anchor, hit |-> r.hit,
                        adds |-> r.adds]

\* ------------------------------------------- Spec: one surface, one pool
\* Symbolizers that share stamps: equal styles over different shadowBlur, and
\* styles whose fields hold the separator of the stamp.
CacheSymbolizers ==
    {constructor(Sym([markerType |-> "pin", markerFill |-> css("a"), markerFillPatternFile |-> "1_p"]), b)
        : b \in ShadowBlurs}
    \cup {constructor(s, 0) :
            s \in {Sym([markerType |-> "pin", markerFill |-> css("a_1"), markerFillPatternFile |-> "p"]),
                   Sym([markerType |-> "pin_a", markerFill |-> css("1"), markerFillPatternFile |-> "p"]),
                   Sym([markerType |-> "star"]),
                   Sym(<<>>)}}

CacheEnvs == {NoEnv, [NoEnv EXCEPT !.cacheVectorOnCanvas = "false"]}

Construct == ConstructIn(CacheSymbolizers)

Symbolize == SymbolizeIn(CacheEnvs, Rotations)

Next == Construct \/ Symbolize

Spec == Init /\ [][Next]_vars

\* ------------------------ ShapeSpec: every symbol, each in its own context
ShapeSymbolizers == {constructor(s, b) : s \in Symbols, b \in ShadowBlurs}

NewContext == NewContextIn(ShapeSymbolizers)

SymbolizeShape == SymbolizeIn(Envs, {NoRotation})

ShapeNext == NewContext \/ SymbolizeShape

ShapeSpec == Init /\ [][ShapeNext]_vars

\* ------------------------------------------------- LineSpec: line painting
\* Most vertices of a path, or of a segment of a split path.
MaxVertices == 3

\* The j-th vertex of a path in half pixels: consecutive vertices differ, and
\* lie on an axis-parallel line.
LineVertex(j) == IF j % 2 = 1 THEN Pt(20 * (j - 1), 20 * (j - 1)) ELSE Pt(20 * j, 20 * (j - 2))

\* _getPath2DPoints: a path of up to MaxVertices points, or a path split at the
\* anti-meridian into two segments of two points or more each.
Paths ==
    {[splitted |-> FALSE, points |-> [j \in 1..n |-> LineVertex(j)], segments |-> <<>>]
        : n \in 0..MaxVertices}
    \cup {[splitted |-> TRUE, points |-> <<>>,
           segments |-> <<[j \in 1..n |-> LineVertex(j)],
                          [j \in 1..m |-> add(LineVertex(j), Pt(400, 0))]>>]
            : n \in 2..MaxVertices, m \in 2..MaxVertices}

ArrowStyleOptions ==
    {<<>>, [arrowStyle |-> [name |-> "classic"]], [arrowStyle |-> [name |-> "open"]],
     [arrowStyle |-> [array |-> <<2, 3>>]]}

ArrowPlacements == {"vertex-first", "vertex-last", "vertex-firstlast", "point", "none"}

\* A line: its options and its internal symbol.
Lines ==
    {[options |-> ("arrowPlacement" :> p) @@ o, symbol |-> s] :
        p \in ArrowPlacements, o \in ArrowStyleOptions,
        s \in {<<>>, [lineWidth |-> 2], [lineWidth |-> 5]}}

DashArrays == {<<>>, <<5, 5>>}

\* The painter prepares the surface for a line: its stroke colour and its dash
\* pattern (Canvas.prepareCanvas).
PrepareLine ==
    \E dasharray \in DashArrays, color \in {"#000", "#f00"}, setLineDash \in BOOLEAN :
        /\ ctx' = [newContext EXCEPT !.lineDash = IF setLineDash THEN dasharray ELSE <<>>,
                                     !.setLineDash = setLineDash,
                                     !.strokeStyle = color]
        /\ calls' = <<>>
        /\ last' = [op |-> "prepareLine", dasharray |-> dasharray]
        /\ UNCHANGED <<this, resources, registered>>

\* The painter paints a line on the prepared surface.
PaintLine ==
    /\ last.op = "prepareLine"
    /\ \E line \in Lines, path \in Paths :
      \E r \in {paintOn(line, ctx, path, 1, 1, last.dasharray)} :
        /\ ctx' = r.ctx
        /\ calls' = r.calls
        /\ last' = [op |-> "paintOn", line |-> line, path |-> path, before |-> ctx,
                    arrows |-> r.arrows]
        /\ UNCHANGED <<this, resources, registered>>

LineNext == PrepareLine \/ PaintLine

LineSpec == Init /\ [][LineNext]_vars

\* ---------------------------------------------- PolygonSpec: paint params
\* Most holes of a polygon.
MaxHoles == 2

\* The hole lists of up to MaxHoles holes.
HoleLists(paths) == UNION {[1..n -> paths] : n \in 0..MaxHoles}

\* What _getPath2DPoints answers for a hole: a path of 2 points or more.
HolePaths == {q \in Paths : q.splitted \/ Len(q.points) >= 2}

\* A hole crosses the anti-meridian only inside an outer ring that crosses it.
Polygons ==
    {[outer |-> o, holes |-> h] :
        o \in {q \in Paths : ~q.splitted}, h \in HoleLists({q \in HolePaths : ~q.splitted})}
    \cup {[outer |-> o, holes |-> h] :
        o \in {q \in Paths : q.splitted}, h \in HoleLists(HolePaths)}

\* The painter asks a polygon for its paint parameters.
GetPaintParams ==
    \E polygon \in Polygons :
      \E r \in {getPaintParams(polygon.outer, polygon.holes)} :
        /\ last' = [op |-> "getPaintParams", outer |-> polygon.outer,
                    holes |-> polygon.holes, params |-> r]
        /\ UNCHANGED <<this, ctx, resources, registered, calls>>

PolygonNext == GetPaintParams

PolygonSpec == Init /\ [][PolygonNext]_vars

\* ------------------------------------------------------------------ claims
isSurfaceCall(k) == k.target # "pool"

isPoolCall(k) == k.target = "pool"

isCreateCanvas(k) == k.op = "createCanvas"

isBlit(k) == k.op = "image"

SurfaceCalls == SelectSeq(calls, isSurfaceCall)

PoolCalls == SelectSeq(calls, isPoolCall)

Rasterizations == Len(SelectSeq(calls, isCreateCanvas))

Blits == SelectSeq(calls, isBlit)

Kind(t) == toLowerCase(t.style.markerType)

Supported(t) == Kind(t) \in MarkerKinds

Symbolized == last.op = "symbolize"

Drew == Symbolized /\ last.path \in {"live", "cache"}

\* C1: symbolize issues no surface call at all when the resolved marker width
\* is 0, or the resolved height is 0, or the resolved fill opacity and the
\* resolved line opacity are both 0, whatever the kind and the instance points.
C1_NoCallsWhenInvisible ==
    (/\ Symbolized
     /\ Len(last.cookedPoints) > 0
     /\ \/ this.style.markerWidth = 0
        \/ this.style.markerHeight = 0
        \/ (this.strokeAndFill.polygonOpacity = 0 /\ this.strokeAndFill.lineOpacity = 0))
    => Len(SurfaceCalls) = 0

C3_HitIsOwnImage ==
    (Symbolized /\ last.path = "cache" /\ last.hit) =>
        LET own == createMarkerImage(this, last.before, last.image.id)
        IN  ~own.err /\ own.image = last.image

\* C4: the transform saved and rotated for an instance is restored on every
\* exit path: when symbolize returns or throws, the save depth and the
\* transform of the surface are those at entry.
C4_TransformRestored ==
    Symbolized => (Len(ctx.stack) = last.depth0 /\ ctx.xf = last.before.xf)

\* C5: for every instance and rotation, the cached image is blitted with its
\* anchor on the surface point live draw draws the marker at, in the frame
\* (pivot and rotation) live draw draws it in.
C5_SamePlacement ==
    (Symbolized /\ last.path = "cache" /\ ~last.err) =>
        /\ Len(Blits) = Len(last.cookedPoints)
        /\ \A k \in 1..Len(Blits) :
             LET i == Len(last.cookedPoints) - k + 1
                 b == Blits[k]
                 live == frame(this, last.before, last.cookedPoints[i], last.rotations[i])
             IN  /\ b.xf = live.ctx.xf
                 /\ Device(b.xf, add(b.at, last.anchor)) = Device(live.ctx.xf, live.point)

\* The segments of the last painted path.
Segments == IF last.path.splitted THEN last.path.segments ELSE <<last.path.points>>

\* The tips C6 puts on one segment: its first vertex, its last vertex, or both.
TipsOf(segment, placement) ==
    CASE placement = "vertex-first" -> <<segment[1]>>
      [] placement = "vertex-last" -> <<segment[Len(segment)]>>
      [] placement = "vertex-firstlast" -> <<segment[1], segment[Len(segment)]>>

\* Whether sequence a, cut into pieces of size k, lists the tips of each
\* segment, segments taken last to first.
TipsMatch(arrows, placement) ==
    LET per == Len(TipsOf(<<Origin>>, placement))
    IN  /\ Len(arrows) = per * Len(Segments)
        /\ \A j \in 1..Len(arrows) :
             LET seg == Segments[Len(Segments) - ((j - 1) \div per)]
             IN  arrows[j][2] = TipsOf(seg, placement)[((j - 1) % per) + 1]

isPolygon(k) == k.op = "polygon"

isStroke(k) == k.op = "path"

isDraw(k) == k.op \in {"polygon", "path"}

\* C6: with an arrow style and a path of 2 points or more, each segment gets
\* one arrow for vertex-first, one for vertex-last and two for
\* vertex-firstlast, each segment on its own; painting issues one path stroke
\* and then one polygon fill per arrow, and no polygon fill without an arrow
\* style or with fewer than 2 points.
C6_ArrowCounts ==
    (last.op = "paintOn") =>
        LET placement == last.line.options.arrowPlacement
            styled == getArrowStyle(last.line) # NoArrowStyle
            draws == SelectSeq(calls, isDraw)
        IN  /\ Len(SelectSeq(calls, isStroke)) = 1
            /\ draws[1].op = "path"
            /\ Len(SelectSeq(calls, isPolygon)) = Len(last.arrows)
            /\ \A k \in 2..Len(draws) :
                 draws[k].op = "polygon" /\ draws[k].pts = last.arrows[Len(last.arrows) - k + 2]
            /\ (styled /\ pathLength(last.path) >= 2
                /\ placement \in {"vertex-first", "vertex-last", "vertex-firstlast"})
               => TipsMatch(last.arrows, placement)
            /\ (~styled \/ pathLength(last.path) < 2) => Len(SelectSeq(calls, isPolygon)) = 0

\* C6 witness: a 2-point line with arrowStyle classic and vertex-last got one
\* arrow, one path stroke and one polygon fill.
C6_Witness ==
    /\ last.op = "paintOn"
    /\ ~last.path.splitted /\ Len(last.path.points) = 2
    /\ last.line.options = [arrowPlacement |-> "vertex-last", arrowStyle |-> [name |-> "classic"]]
    /\ Len(last.arrows) = 1
    /\ Len(SelectSeq(calls, isStroke)) = 1
    /\ Len(SelectSeq(calls, isPolygon)) = 1

\* C6 witness: a split path with vertex-firstlast got two arrows per segment.
C6_WitnessSplit ==
    /\ last.op = "paintOn"
    /\ last.path.splitted
    /\ last.line.options.arrowPlacement = "vertex-firstlast"
    /\ Len(last.arrows) = 4

\* C7: a marker kind outside the nine kinds makes the draw fail on the live
\* and on the cached path, and leaves the pool with the entries it had.
C7_UnsupportedKindFails ==
    (Drew /\ ~Supported(this)) => (last.err /\ resources = last.poolBefore)

\* C7 reached: an unsupported kind failed on the cached path with the pool
\* left as it was.
C7_FailedOnCachedPath ==
    Symbolized /\ last.path = "cache" /\ ~Supported(this) /\ last.err
    /\ resources = last.poolBefore

\* The example of C8: a bar 10 wide and 20 high, line width 2, no shadow.
BarExample(t) ==
    /\ Kind(t) = "bar"
    /\ t.style.markerWidth = 10
    /\ t.style.markerHeight = 20
    /\ t.strokeAndFill.lineWidth = 2
    /\ t.shadowBlur = 0

\* The anchor of C8 for the image a cached blit drew, in half pixels:
\* (imageWidth / 2, imageHeight - bottomPadding - lineWidth / 2 - shadowBlur)
\* for bar, pie and pin, the centre of the image for every other kind.
AnchorAsClaimed ==
    LET w == last.image.width
        h == last.image.height
        lineWidth == this.strokeAndFill.lineWidth
        bottomPadding == IF lineWidth % 2 = 0 THEN 2 ELSE 3
    IN  IF Kind(this) \in {"bar", "pie", "pin"}
        THEN last.anchor = Pt(w, 2 * h - 2 * bottomPadding - lineWidth - 2 * this.shadowBlur)
        ELSE last.anchor = Pt(w, h)

CachedBlit == Symbolized /\ last.path = "cache" /\ ~last.err

\* C8, as claimed: the anchor of the cached image follows the formula, and for
\* the example bar the padding is (2, 2) and the anchor is (7, imageHeight - 3).
C8_BarAnchorAt7 ==
    CachedBlit =>
        /\ AnchorAsClaimed
        /\ BarExample(this) =>
             /\ this.padding = <<2, 2>>
             /\ last.anchor = Pt(2 * 7, 2 * (last.image.height - 3))

\* C8, amended: the anchor of the cached image follows the formula, and for
\* the example bar the padding is (2, 2), the image is 16 by 26 and the anchor
\* is (8, imageHeight - 3) = (8, 23).
C8_Anchor ==
    CachedBlit =>
        /\ AnchorAsClaimed
        /\ BarExample(this) =>
             /\ this.padding = <<2, 2>>
             /\ last.image.width = 16 /\ last.image.height = 26
             /\ last.anchor = Pt(2 * 8, 2 * (last.image.height - 3))
             /\ last.anchor = Pt(2 * 8, 2 * 23)

\* C8 witness: the example bar was drawn from its cached image.
C8_Witness == CachedBlit /\ BarExample(this) /\ ~last.hit /\ Len(Blits) > 0

\* C9: a symbolize that does not exit early draws live exactly when the
\* painter is spriting, or the geometry is the mask of its layer, or the symbol
\* holds a function-valued expression, or cacheVectorOnCanvas is false, and
\* draws from the cache otherwise; drawing live it neither reads the pool for
\* an image nor adds to it.
C9_DrawMode ==
    Drew =>
        /\ (last.path = "live") <=>
              \/ last.env.spriting
              \/ last.env.isMask
              \/ this.symbol.fnKeys # {}
              \/ last.env.cacheVectorOnCanvas = "false"
        /\ (last.path = "live") =>
              /\ PoolCalls = <<>>
              /\ resources = last.poolBefore
              /\ Rasterizations = 0
              /\ Blits = <<>>
        /\ (last.path = "cache") => Len(PoolCalls) >= 1 /\ PoolCalls[1].op = "getImage"

\* C9 witness: live draw forced by cacheVectorOnCanvas = false alone.
C9_Witness ==
    /\ Drew /\ last.path = "live" /\ ~last.err
    /\ ~last.env.spriting /\ ~last.env.isMask /\ this.symbol.fnKeys = {}
    /\ last.env.cacheVectorOnCanvas = "false"

\* The primitive calls among the calls to one surface, each as its operation
\* and, of a polygon or a stroke, the number of its vertices.
isPrimitive(k) == k.op \in {"ellipse", "path", "polygon", "bezierCurveAndFill", "sector"}

Shape(k) == [op |-> k.op, n |-> IF k.op \in {"polygon", "path"} THEN Len(k.pts) ELSE 0]

Primitives(target) ==
    LET on(k) == isPrimitive(k) /\ k.target = target
        sel == SelectSeq(calls, on)
    IN  [j \in DOMAIN sel |-> Shape(sel[j])]

Prim(op, n) == [op |-> op, n |-> n]

\* The primitives of one marker of a kind, with kind x drawn as polygon or as
\* two strokes.
PrimitiveOf(kind, xAsPolygon) ==
    CASE kind \in {"diamond", "bar", "square"} -> <<Prim("polygon", 4)>>
      [] kind = "triangle" -> <<Prim("polygon", 3)>>
      [] kind = "x" -> IF xAsPolygon THEN <<Prim("polygon", 4)>>
                       ELSE <<Prim("path", 2), Prim("path", 2)>>
      [] kind = "cross" -> <<Prim("path", 2), Prim("path", 2)>>
      [] kind = "pin" -> <<Prim("bezierCurveAndFill", 0)>>
      [] kind = "pie" -> <<Prim("sector", 0)>>
      [] kind = "ellipse" -> <<Prim("ellipse", 0)>>

\* seq is pattern, times over.
Repeats(seq, pattern, times) ==
    /\ Len(seq) = times * Len(pattern)
    /\ \A j \in 1..Len(seq) : seq[j] = pattern[((j - 1) % Len(pattern)) + 1]

\* Every marker of a supported kind drawn by the last symbolize, live on the
\* surface or into the image it created, was drawn without an error and issued
\* the primitives of its kind.
Dispatch(xAsPolygon) ==
    (Drew /\ Supported(this)) =>
        LET pattern == PrimitiveOf(Kind(this), xAsPolygon)
        IN  /\ ~last.err
            /\ last.path = "live" =>
                  Repeats(Primitives("main"), pattern, Len(last.cookedPoints))
            /\ last.path = "cache" =>
                  /\ Primitives("main") = <<>>
                  /\ Repeats(Primitives("offscreen"), pattern, Rasterizations)

\* C10, as claimed: one polygon call on the 4 vertices (3 for triangle) for
\* diamond, bar, square, triangle and x; two stroke calls for cross only; one
\* Bezier fill for pin, one sector fill for pie, one ellipse fill for ellipse.
C10_XIsPolygon == Dispatch(TRUE)

\* C10, amended: one polygon call on the 4 vertices (3 for triangle) for
\* diamond, bar, square and triangle; two stroke calls for cross and for x;
\* one Bezier fill for pin, one sector fill for pie, one ellipse fill for
\* ellipse.
C10_Dispatch == Dispatch(FALSE)

\* C10 witness: markers of kind x were drawn live.
C10_Witness ==
    Drew /\ last.path = "live" /\ ~last.err /\ Kind(this) = "x"
    /\ Len(last.cookedPoints) = 2

\* The positions in calls of the calls of one operation.
Positions(op) == {j \in DOMAIN calls : calls[j].op = op}

\* C11: painting a line leaves the line-dash pattern of the surface as it found
\* it; with arrows the pattern is cleared before the arrow polygons are
\* filled, and without an arrow the arrow step does not touch the dash state.
C11_DashUnchanged ==
    (last.op = "paintOn") =>
        /\ ctx.lineDash = last.before.lineDash
        /\ (last.arrows # <<>> /\ last.before.setLineDash) =>
               /\ Positions("setLineDash") # {}
               /\ \A j \in Positions("setLineDash"), k \in Positions("polygon") : j < k
        /\ (last.arrows = <<>>) => Positions("setLineDash") = {}

\* C11 reached: a dashed line with arrows was painted.
C11_DashedWithArrows ==
    /\ last.op = "paintOn"
    /\ last.before.lineDash = <<5, 5>>
    /\ last.arrows # <<>>

\* The ring a hole contributes to the first list, as C12 has it: its first
\* part when it is split, the whole hole when it is not.
FirstOf(hole) == IF hole.splitted THEN Ring(hole.segments[1]) ELSE Ring(hole.points)

isSplitHole(hole) == hole.splitted

\* C12: of a polygon whose outer ring is split, the paint parameters are two
\* lists of rings, never of single points: a split hole adds its first part to
\* the first list and its second part to the second, an unsplit hole is added
\* whole to the first list only; of an unsplit polygon they are the outer ring
\* followed by the hole rings in order.
C12_RingLists ==
    (last.op = "getPaintParams") =>
        LET outer == last.outer
            holes == last.holes
            lists == last.params.lists
            splitHoles == SelectSeq(holes, isSplitHole)
        IN  IF outer.splitted
            THEN /\ Len(lists) = 2
                 /\ \A l \in 1..2 : \A j \in DOMAIN lists[l] : lists[l][j].type = "ring"
                 /\ lists[1] = <<Ring(outer.segments[1])>>
                                 \o [j \in DOMAIN holes |-> FirstOf(holes[j])]
                 /\ lists[2] = <<Ring(outer.segments[2])>>
                                 \o [j \in DOMAIN splitHoles |-> Ring(splitHoles[j].segments[2])]
            ELSE lists = <<<<Ring(outer.points)>>
                             \o [j \in DOMAIN holes |-> Ring(holes[j].points)]>>

\* C12 reached: a split polygon with an unsplit hole of 3 points.
C12_UnsplitHoleInSplitPolygon ==
    /\ last.op = "getPaintParams"
    /\ last.outer.splitted
    /\ Len(last.holes) = 1
    /\ ~last.holes[1].splitted /\ Len(last.holes[1].points) = 3

====
